---- MODULE Spec2Model ----
(***************************************************************************)
(* Model of backend/agent.py: the voice-assistant session orchestrator.    *)
(*                                                                         *)
(* Representation of Python values:                                        *)
(*  - a descriptor string is a sequence of tokens; the tokens "/" and ":"  *)
(*    are the two separator characters, every other token is a run of      *)
(*    characters holding neither of them;                                  *)
(*  - an utterance text is a sequence of tokens, " " being whitespace;     *)
(*  - an optional value (a key of a dict that may be missing, a variable   *)
(*    that may be None) is a set of at most one element, {} being None;    *)
(*  - other strings (session ids, LLM identifiers, messages) are strings.  *)
(***************************************************************************)
EXTENDS Naturals, Sequences, FiniteSets, TLC

VARIABLES
    env,        \* process environment: credentials present, plugin health
    process,    \* the worker process: where __main__ stands, its exit status
    metadata,   \* metadata[j]: ctx.job.metadata of job j, as dispatched
    pc,         \* pc[j]: where entrypoint(ctx) of job j stands
    config,     \* config[j]: the locals of entrypoint set by lines 234-250
    backend,    \* backend[j]: the AgentSession built by entrypoint
    agent,      \* agent[j]: the Assistant passed to agent_session.start
    greetings,  \* greetings[j]: generate_reply(instructions=...) calls issued
    error,      \* error[j]: the exception entrypoint raised, "none" if none
    turns,      \* the utterance-finalized events fired, each with its task
    posts,      \* the POSTs sent to the transcript store, in sending order
    searches    \* the invocations of Assistant.web_search

session == <<env, process, metadata, pc, config, backend, agent, greetings, error>>

vars == <<session, turns, posts, searches>>

---------------------------------------------------------------------------
(* Bounds *)

\* longest descriptor string, in tokens, that the resolver is applied to
MaxLen == 5

\* utterance-finalized events and tool invocations of one run
MaxCalls == 2

---------------------------------------------------------------------------
(* Strings *)

None == {}

Some(v) == {v}

\* the value held by a non-empty optional
The(opt) == CHOOSE v \in opt : TRUE

\* dict.get(key, default) on the optional stored under the key
GetOr(opt, default) == IF opt = None THEN default ELSE The(opt)

\* str.startswith(prefix)
StartsWith(s, prefix) ==
    /\ Len(s) >= Len(prefix)
    /\ SubSeq(s, 1, Len(prefix)) = prefix

\* sep in s
Contains(s, sep) == \E i \in 1..Len(s) : s[i] = sep

\* index of the first / last occurrence of sep in s (s holds one)
FirstIndex(s, sep) ==
    CHOOSE i \in 1..Len(s) : s[i] = sep /\ \A k \in 1..(i - 1) : s[k] # sep

LastIndex(s, sep) ==
    CHOOSE i \in 1..Len(s) : s[i] = sep /\ \A k \in (i + 1)..Len(s) : s[k] # sep

\* s.rsplit(sep, 1) in the place of s.split(sep, 1)
SplitAtLast(s, sep) ==
    IF Contains(s, sep)
    THEN <<SubSeq(s, 1, LastIndex(s, sep) - 1),
           SubSeq(s, LastIndex(s, sep) + 1, Len(s))>>
    ELSE <<s>>

\* s.split(sep, 1): one part when sep is absent, else the text before the
\* first sep and the whole text after it
SplitFirst(s, sep) ==
    IF Contains(s, sep)
    THEN <<SubSeq(s, 1, FirstIndex(s, sep) - 1),
           SubSeq(s, FirstIndex(s, sep) + 1, Len(s))>>
    ELSE <<s>>

\* s.split(sep)[-1]: the text after the last sep, s itself when sep is absent
AfterLast(s, sep) ==
    IF Contains(s, sep)
    THEN SubSeq(s, LastIndex(s, sep) + 1, Len(s))
    ELSE s

---------------------------------------------------------------------------
(* Provider Descriptor Resolver *)

CartesiaPrefix == <<"cartesia", "/">>

ElevenLabsPrefix == <<"elevenlabs", "/">>

CartesiaBaseline == <<"sonic-3">>

ElevenLabsBaseline == <<"eleven_turbo_v2_5">>

\* the resolver returned the descriptor string itself
Fallback(descriptor) ==
    [kind |-> "str", value |-> descriptor, model |-> <<>>, voice |-> <<>>]

\* the resolver returned provider.TTS(model=model, voice=voice)
PluginTTS(provider, model, voice) ==
    [kind |-> provider, value |-> <<>>, model |-> model, voice |-> voice]

\* an exception left the resolver (no path of the code does this)
Raised == [kind |-> "raised", value |-> <<>>, model |-> <<>>, voice |-> <<>>]

\* the provider branch without its try/except: the constructor's exception
\* leaves the resolver
ProviderBranchUncaught(descriptor, provider, credential, baseline, e) ==
    LET parts == SplitFirst(descriptor, ":")
    IN  IF Len(parts) = 2 /\ credential \in e.creds
        THEN IF e.plugin_ok
             THEN PluginTTS(provider, AfterLast(parts[1], "/"), parts[2])
             ELSE Raised
        ELSE Fallback(descriptor)

\* one provider branch of create_tts_from_voice_descriptor: e is the process
\* environment; the plugin constructor raises when e.plugin_ok is FALSE
ProviderBranch(descriptor, provider, credential, baseline, e) ==
    LET parts == SplitFirst(descriptor, ":")
    IN  IF Len(parts) = 2
        THEN LET model_part == parts[1]
                 voice_id == parts[2]
                 model == IF Contains(model_part, "/")
                          THEN AfterLast(model_part, "/")
                          ELSE baseline
             IN  IF credential \in e.creds
                 THEN IF e.plugin_ok
                      THEN PluginTTS(provider, model, voice_id)
                      ELSE Fallback(descriptor)
                 ELSE Fallback(descriptor)
        ELSE Fallback(descriptor)

create_tts_from_voice_descriptor(voice_descriptor, e) ==
    IF voice_descriptor = <<>>
    THEN Fallback(voice_descriptor)
    ELSE IF StartsWith(voice_descriptor, CartesiaPrefix)
    THEN ProviderBranch(voice_descriptor, "cartesia", "CARTESIA_API_KEY",
                        CartesiaBaseline, e)
    ELSE IF StartsWith(voice_descriptor, ElevenLabsPrefix)
    THEN ProviderBranch(voice_descriptor, "elevenlabs", "ELEVENLABS_API_KEY",
                        ElevenLabsBaseline, e)
    ELSE Fallback(voice_descriptor)

---------------------------------------------------------------------------
(* Dispatch metadata and the Session Configuration Resolver *)

Keys == {"session_id", "realtime", "voice", "model",
         "tool_calling_enabled", "web_search_enabled"}

\* a JSON object of the dispatch payload: under every key the optional value
Object(sid, rt, v, m, tc, ws) ==
    [session_id |-> sid, realtime |-> rt, voice |-> v, model |-> m,
     tool_calling_enabled |-> tc, web_search_enabled |-> ws]

EmptyObject == Object(None, None, None, None, None, None)

\* ctx.job.metadata. kind "absent": None or the empty string; "malformed": a
\* text json.loads rejects; "null", "list", "string", "number": a text
\* json.loads turns into a value of that type; "object": into a dict
Raw(kind, fields) == [kind |-> kind, fields |-> fields]

NonObjectKinds == {"null", "list", "string", "number"}

DefaultVoice ==
    <<"cartesia", "/", "sonic-3", ":", "9626c31c-bec5-4cca-baa8-f8ba9e84c8bc">>

DefaultModel == "openai/gpt-4.1-mini"

\* lines 234-244: the locals metadata and session_id after the try block,
\* and whether the except clause logged its warning
ParseMetadata(raw) ==
    IF raw.kind = "absent"
    THEN [type |-> "dict", fields |-> EmptyObject, session_id |-> None,
          warned |-> FALSE]
    ELSE IF raw.kind = "malformed"
    THEN \* json.loads raises before metadata is assigned
         [type |-> "dict", fields |-> EmptyObject, session_id |-> None,
          warned |-> TRUE]
    ELSE IF raw.kind \in NonObjectKinds
    THEN \* metadata is assigned, then metadata.get raises AttributeError
         [type |-> raw.kind, fields |-> EmptyObject, session_id |-> None,
          warned |-> TRUE]
    ELSE [type |-> "dict", fields |-> raw.fields,
          session_id |-> raw.fields.session_id, warned |-> FALSE]

\* lines 246-250 raise AttributeError unless the local metadata is a dict
ConfigRaises(parsed) == parsed.type # "dict"

\* lines 246-250 on a dict
ResolveConfig(parsed) ==
    [session_id |-> parsed.session_id,
     realtime_mode |-> GetOr(parsed.fields.realtime, FALSE),
     voice |-> GetOr(parsed.fields.voice, DefaultVoice),
     model |-> GetOr(parsed.fields.model, DefaultModel),
     tool_calling_enabled |-> GetOr(parsed.fields.tool_calling_enabled, TRUE),
     web_search_enabled |-> GetOr(parsed.fields.web_search_enabled, TRUE),
     warned |-> parsed.warned]

---------------------------------------------------------------------------
(* Backend Factory / Mode Selector *)

NoBackend ==
    [mode |-> "none", llm_kind |-> "none", llm_model |-> "",
     llm_voice |-> <<>>, tts |-> None, resolver_calls |-> 0,
     handlers |-> {}]

Handlers == {"user_speech_committed", "agent_speech_committed"}

\* lines 261-279: openai.realtime.RealtimeModel(voice=voice) as the only
\* backend of AgentSession, both handlers registered
RealtimeBackend(c) ==
    [mode |-> "realtime", llm_kind |-> "openai.realtime",
     llm_model |-> "", llm_voice |-> c.voice, tts |-> None,
     resolver_calls |-> 0, handlers |-> Handlers]

\* lines 316-343: the LLM by its inference identifier, the TTS from the
\* resolver, both handlers registered
HybridBackend(c, e) ==
    [mode |-> "hybrid", llm_kind |-> "inference",
     llm_model |-> IF c.model = "" THEN DefaultModel ELSE c.model,
     llm_voice |-> <<>>,
     tts |-> Some(create_tts_from_voice_descriptor(c.voice, e)),
     resolver_calls |-> 1, handlers |-> Handlers]

\* the voice resolved before the branch on the mode, for both modes
BuildBackendResolvingFirst(c, e) ==
    IF c.realtime_mode
    THEN [RealtimeBackend(c) EXCEPT
             !.tts = Some(create_tts_from_voice_descriptor(c.voice, e)),
             !.resolver_calls = 1]
    ELSE HybridBackend(c, e)

BuildBackend(c, e) ==
    IF c.realtime_mode THEN RealtimeBackend(c) ELSE HybridBackend(c, e)

\* an exception of the resolver would leave line 320 and reach line 372
ResolverRaised(b) == b.tts # None /\ The(b.tts).kind = "raised"

\* the Assistant built without passing the session's flags on
AssistantDefaults(tool_calling_enabled, web_search_enabled) ==
    [instructions |-> "use the web_search tool", web_search_enabled |-> TRUE]

\* an Assistant whose tool is switched off with tool calling as well
AssistantGatedByToolCalling(tool_calling_enabled, web_search_enabled) ==
    [instructions |-> IF tool_calling_enabled /\ web_search_enabled
                      THEN "use the web_search tool"
                      ELSE "rely on built-in knowledge",
     web_search_enabled |-> tool_calling_enabled /\ web_search_enabled]

\* Assistant.__init__, lines 48-60
Assistant(tool_calling_enabled, web_search_enabled) ==
    [instructions |-> IF tool_calling_enabled /\ web_search_enabled
                      THEN "use the web_search tool"
                      ELSE "rely on built-in knowledge",
     web_search_enabled |-> web_search_enabled]

---------------------------------------------------------------------------
(* entrypoint(ctx) *)

\* error[j] names the statement whose exception left entrypoint: line 246,
\* outside every try, raises "AttributeError"; the others are logged by line
\* 373 and re-raised by line 374
RoomCredentials == {"LIVEKIT_URL", "LIVEKIT_API_KEY", "LIVEKIT_API_SECRET"}

\* where __main__ stands: state is "boot" before line 382, "worker" while
\* run_app runs, "exited" after; run_app tells whether line 403 was reached
Process(state, code, run_app) ==
    [state |-> state, code |-> code, run_app |-> run_app]

Booting == Process("boot", 0, FALSE)

Worker == Process("worker", 0, TRUE)

\* verification that asks for every credential the worker's features use
verify_envEveryKey(e) ==
    RoomCredentials \cup {"PERPLEXITY_API_KEY", "CARTESIA_API_KEY"}
        \subseteq e.creds

\* lines 25-42: e.creds holds the variables os.getenv finds set and non-empty
verify_env(e) == RoomCredentials \subseteq e.creds

\* lines 382-408: the verification, then exit status 1 or the worker
Main ==
    /\ process = Booting
    /\ process' = IF verify_env(env) THEN Worker
                  ELSE Process("exited", 1, FALSE)
    /\ UNCHANGED <<env, metadata, pc, config, backend, agent, greetings, error,
                   turns, posts, searches>>

\* lines 409-414: run_app ends in KeyboardInterrupt (the script runs to its
\* end, status 0) or in another exception (sys.exit(1))
WorkerStops ==
    /\ process.state = "worker"
    /\ \E interrupted \in BOOLEAN :
          process' = Process("exited", IF interrupted THEN 0 ELSE 1, TRUE)
    /\ UNCHANGED <<env, metadata, pc, config, backend, agent, greetings, error,
                   turns, posts, searches>>

SessionFatal == {"resolver", "backend", "start", "greeting"}

\* lines 220-291, up to the first await: parse the metadata, resolve the
\* configuration, build the backends, register the handlers, construct the
\* Assistant and call agent_session.start. built is FALSE when a constructor
\* of lines 261-267 or 328-331 raises; line 372 catches and line 374 re-raises
Entrypoint(j) ==
    /\ process.state = "worker"
    /\ pc[j] = "dispatched"
    /\ LET parsed == ParseMetadata(metadata[j])
       IN  IF ConfigRaises(parsed)
           THEN /\ pc' = [pc EXCEPT ![j] = "raised"]
                /\ error' = [error EXCEPT ![j] = "AttributeError"]
                /\ UNCHANGED <<config, backend, agent>>
           ELSE LET c == ResolveConfig(parsed)
                IN  /\ config' = [config EXCEPT ![j] = Some(c)]
                    /\ \E built \in BOOLEAN :
                          IF ResolverRaised(BuildBackend(c, env))
                          THEN /\ pc' = [pc EXCEPT ![j] = "raised"]
                               /\ error' = [error EXCEPT ![j] = "resolver"]
                               /\ UNCHANGED <<backend, agent>>
                          ELSE IF built
                          THEN /\ backend' = [backend EXCEPT
                                                ![j] = BuildBackend(c, env)]
                               /\ agent' = [agent EXCEPT ![j] =
                                     Some(Assistant(c.tool_calling_enabled,
                                                    c.web_search_enabled))]
                               /\ pc' = [pc EXCEPT ![j] = "starting"]
                               /\ UNCHANGED error
                          ELSE /\ pc' = [pc EXCEPT ![j] = "raised"]
                               /\ error' = [error EXCEPT ![j] = "backend"]
                               /\ UNCHANGED <<backend, agent>>
    /\ UNCHANGED <<env, process, metadata, greetings, turns, posts, searches>>

\* lines 287-304 / 351-368: agent_session.start returns and the greeting is
\* requested, or start raises and line 374 re-raises
StartDone(j) ==
    /\ pc[j] = "starting"
    /\ \E ok \in BOOLEAN :
          IF ok
          THEN /\ pc' = [pc EXCEPT ![j] = "greeting"]
               /\ greetings' = [greetings EXCEPT ![j] = @ + 1]
               /\ UNCHANGED error
          ELSE /\ pc' = [pc EXCEPT ![j] = "raised"]
               /\ error' = [error EXCEPT ![j] = "start"]
               /\ UNCHANGED greetings
    /\ UNCHANGED <<env, process, metadata, config, backend, agent, turns, posts,
                   searches>>

\* lines 302-306 / 366-370: generate_reply returns and entrypoint returns
\* with the session running, or it raises and line 374 re-raises
GreetDone(j) ==
    /\ pc[j] = "greeting"
    /\ \E ok \in BOOLEAN :
          IF ok
          THEN /\ pc' = [pc EXCEPT ![j] = "running"]
               /\ UNCHANGED error
          ELSE /\ pc' = [pc EXCEPT ![j] = "raised"]
               /\ error' = [error EXCEPT ![j] = "greeting"]
    /\ UNCHANGED <<env, process, metadata, config, backend, agent, greetings,
                   turns, posts, searches>>

---------------------------------------------------------------------------
(* Tool Invocation Subsystem: Assistant.web_search *)

DisabledMessage == "Web search is currently disabled in your settings."

NotConfiguredMessage == "Search unavailable: API key not configured"

TroubleMessage == "I'm having trouble searching the web right now."

UnavailableMessage == "Search is temporarily unavailable."

\* what the awaited session.post of lines 88-111 can end in: a response with a
\* status and a body, the timeout of line 110, or a transport exception. A
\* body is "malformed" when lines 113-115 raise on it
Reply(kind, status, body) == [kind |-> kind, status |-> status, body |-> body]

NoReply == Reply("none", 0, "")

SearchReplies ==
    {Reply("response", 200, "It is sunny."), Reply("response", 200, "malformed"),
     Reply("response", 500, "server error"), Reply("timeout", 0, ""),
     Reply("exception", 0, "")}

Queries == {"weather today", "traffic on I-5"}

\* the credential checked, the flag of the session never read
SearchGateCredentialOnly(a, e) ==
    IF "PERPLEXITY_API_KEY" \notin e.creds THEN "unconfigured" ELSE "request"

\* the two gates of lines 76-84 in the other order
SearchGateCredentialFirst(a, e) ==
    IF "PERPLEXITY_API_KEY" \notin e.creds THEN "unconfigured"
    ELSE IF ~a.web_search_enabled THEN "disabled"
    ELSE "request"

\* lines 76-84: which gate returns, or "request" when both let the call pass
SearchGate(a, e) ==
    IF ~a.web_search_enabled THEN "disabled"
    ELSE IF "PERPLEXITY_API_KEY" \notin e.creds THEN "unconfigured"
    ELSE "request"

\* lines 112-120 without the except clause of lines 121-123
SearchResultUncaught(reply) ==
    IF reply.kind = "response" /\ reply.body # "malformed"
    THEN [pc |-> "returned",
          result |-> IF reply.status = 200 THEN reply.body ELSE TroubleMessage]
    ELSE [pc |-> "raised", result |-> ""]

\* one sentence for every failure, the except clause returning that of line 120
SearchResultOneMessage(reply) ==
    IF reply.kind = "response" /\ reply.status = 200 /\ reply.body # "malformed"
    THEN [pc |-> "returned", result |-> reply.body]
    ELSE [pc |-> "returned", result |-> TroubleMessage]

\* lines 112-123: how the invocation ends on a reply, [pc, result]
SearchResult(reply) ==
    IF reply.kind = "response"
    THEN IF reply.status = 200
         THEN IF reply.body = "malformed"
              THEN [pc |-> "returned", result |-> UnavailableMessage]
              ELSE [pc |-> "returned", result |-> reply.body]
         ELSE [pc |-> "returned", result |-> TroubleMessage]
    ELSE [pc |-> "returned", result |-> UnavailableMessage]

Budget == Len(turns) + Len(searches) < MaxCalls

Live(j) == pc[j] \in {"greeting", "running"}

\* lines 76-111: the understanding backend calls the tool of job j's agent
SearchCall(j, query) ==
    /\ Live(j)
    /\ Budget
    /\ agent[j] # None
    /\ LET gate == SearchGate(The(agent[j]), env)
           call == [job |-> j, query |-> query, gate |-> gate,
                    reply |-> NoReply]
       IN  searches' = Append(searches,
              IF gate = "disabled"
              THEN call @@ [pc |-> "returned", result |-> DisabledMessage,
                            requests |-> 0]
              ELSE IF gate = "unconfigured"
              THEN call @@ [pc |-> "returned", result |-> NotConfiguredMessage,
                            requests |-> 0]
              ELSE call @@ [pc |-> "awaiting", result |-> "",
                            requests |-> 1])
    /\ UNCHANGED <<session, turns, posts>>

\* lines 111-123: the awaited request of invocation i ends in reply
SearchReturn(i, reply) ==
    /\ searches[i].pc = "awaiting"
    /\ searches' = [searches EXCEPT
          ![i] = [@ EXCEPT !.pc = SearchResult(reply).pc,
                           !.result = SearchResult(reply).result,
                           !.reply = reply]]
    /\ UNCHANGED <<session, turns, posts>>

---------------------------------------------------------------------------
(* Transcript Capture & Persistence Pipeline *)

BACKEND_URL == "https://shaw.up.railway.app"

Speakers == {"user", "assistant"}

Texts == {<<>>, <<" ">>, <<" ", "hello", " ">>}

TurnReplies ==
    {Reply("response", 201, ""), Reply("response", 200, ""),
     Reply("timeout", 0, ""), Reply("exception", 0, "")}

\* bool(s) of an optional string
Truthy(opt) == opt # None /\ opt # Some("")

\* str.strip()
RECURSIVE LStrip(_)
LStrip(text) ==
    IF text # <<>> /\ Head(text) = " " THEN LStrip(Tail(text)) ELSE text

RECURSIVE RStrip(_)
RStrip(text) ==
    IF text # <<>> /\ text[Len(text)] = " "
    THEN RStrip(SubSeq(text, 1, Len(text) - 1))
    ELSE text

Strip(text) == RStrip(LStrip(text))

\* line 195
Url(session_id) == <<BACKEND_URL, "/v1/sessions/", session_id, "/turns">>

\* the text sent as received
TurnBodyUnstripped(speaker, text) == [speaker |-> speaker, text |-> text]

\* lines 199-202
TurnBody(speaker, text) == [speaker |-> speaker, text |-> Strip(text)]

\* the guard on the text as received
SaveTurnSkipsUnstripped(session_id, text) == ~Truthy(session_id) \/ text = <<>>

\* line 190: save_turn returns without a request
SaveTurnSkips(session_id, text) == ~Truthy(session_id) \/ Strip(text) = <<>>

\* lines 273 / 278 / 337 / 342: the handler creates the task
HandlerSpawns(session_id, text) == Truthy(session_id) /\ text # <<>>

\* every 2xx status taken as success
SaveTurnOutcomeAny2xx(reply) ==
    IF reply.kind = "response" /\ reply.status \in 200..299
    THEN "saved" ELSE "failed"

\* a failed turn put back to be sent again
SaveTurnOutcomeRetry(reply) ==
    IF reply.kind = "response" /\ reply.status = 201 THEN "saved" ELSE "spawned"

\* lines 206-216: how save_turn ends on a reply
SaveTurnOutcome(reply) ==
    IF reply.kind = "response" /\ reply.status = 201 THEN "saved" ELSE "failed"

\* the handler awaiting save_turn inline: the request leaves within the
\* handler, and no further event is handled until its reply
OnSpeechAwaited(j, event, speaker, text) ==
    /\ Live(j)
    /\ Budget
    /\ \A i \in DOMAIN turns : turns[i].pc # "posting"
    /\ LET sid == The(config[j]).session_id
           sent == HandlerSpawns(sid, text) /\ ~SaveTurnSkips(sid, text)
       IN  /\ turns' = Append(turns,
                 [job |-> j, event |-> event, speaker |-> speaker,
                  text |-> text, session_id |-> sid,
                  pc |-> IF sent THEN "posting" ELSE "none",
                  reply |-> NoReply])
           /\ posts' = IF sent
                       THEN Append(posts,
                               [turn |-> Len(turns) + 1, url |-> Url(The(sid)),
                                body |-> TurnBody(speaker, text)])
                       ELSE posts
    /\ UNCHANGED <<session, searches>>

\* the session id kept in one place for the whole process, written by the
\* first entrypoint that parsed one
OnSpeechSharedSession(j, event, speaker, text) ==
    /\ Live(j)
    /\ Budget
    /\ LET first == CHOOSE k \in DOMAIN pc : config[k] # None
           sid == The(config[first]).session_id
       IN  turns' = Append(turns,
              [job |-> j, event |-> event, speaker |-> speaker, text |-> text,
               session_id |-> sid,
               pc |-> IF HandlerSpawns(sid, text) THEN "spawned" ELSE "none",
               reply |-> NoReply])
    /\ UNCHANGED <<session, posts, searches>>

\* the body of both handlers of both branches: asyncio.create_task(save_turn(
\* session_id, speaker, msg.content)) under the guard, then return
OnSpeech(j, event, speaker, text) ==
    /\ Live(j)
    /\ Budget
    /\ LET sid == The(config[j]).session_id
       IN  turns' = Append(turns,
              [job |-> j, event |-> event, speaker |-> speaker, text |-> text,
               session_id |-> sid,
               pc |-> IF HandlerSpawns(sid, text) THEN "spawned" ELSE "none",
               reply |-> NoReply])
    /\ UNCHANGED <<session, posts, searches>>

\* the handlers of the hybrid branch with their labels exchanged
HandlerSpeakerHybridSwapped(mode, event) ==
    IF (mode = "realtime") = (event = "user_speech_committed")
    THEN "user" ELSE "assistant"

\* the speaker label that the handler of event passes to save_turn: the
\* realtime branch defines its two handlers at lines 271-279, the hybrid
\* branch its own two at lines 335-343
HandlerSpeaker(mode, event) ==
    IF mode = "realtime"
    THEN IF event = "user_speech_committed" THEN "user" ELSE "assistant"
    ELSE IF event = "user_speech_committed" THEN "user" ELSE "assistant"

\* lines 271-274 / 335-338
on_user_speech(j, text) ==
    /\ "user_speech_committed" \in backend[j].handlers
    /\ OnSpeech(j, "user_speech_committed",
                HandlerSpeaker(backend[j].mode, "user_speech_committed"), text)

\* lines 276-279 / 340-343
on_agent_speech(j, text) ==
    /\ "agent_speech_committed" \in backend[j].handlers
    /\ OnSpeech(j, "agent_speech_committed",
                HandlerSpeaker(backend[j].mode, "agent_speech_committed"),
                text)

\* the tasks run strictly in the order of their creation
SaveTurnStartInOrder(i) ==
    /\ turns[i].pc = "spawned"
    /\ \A k \in 1..(i - 1) : turns[k].pc # "spawned"
    /\ IF SaveTurnSkips(turns[i].session_id, turns[i].text)
       THEN /\ turns' = [turns EXCEPT ![i].pc = "skipped"]
            /\ UNCHANGED posts
       ELSE /\ turns' = [turns EXCEPT ![i].pc = "posting"]
            /\ posts' = Append(posts,
                  [turn |-> i, url |-> Url(The(turns[i].session_id)),
                   body |-> TurnBody(turns[i].speaker, turns[i].text)])
    /\ UNCHANGED <<session, searches>>

\* lines 190-205: the event loop runs the task of turn i up to its request
SaveTurnStart(i) ==
    /\ turns[i].pc = "spawned"
    /\ IF SaveTurnSkips(turns[i].session_id, turns[i].text)
       THEN /\ turns' = [turns EXCEPT ![i].pc = "skipped"]
            /\ UNCHANGED posts
       ELSE /\ turns' = [turns EXCEPT ![i].pc = "posting"]
            /\ posts' = Append(posts,
                  [turn |-> i, url |-> Url(The(turns[i].session_id)),
                   body |-> TurnBody(turns[i].speaker, turns[i].text)])
    /\ UNCHANGED <<session, searches>>

\* lines 205-216: the request of turn i ends in reply; the task is over
SaveTurnDone(i, reply) ==
    /\ turns[i].pc = "posting"
    /\ turns' = [turns EXCEPT ![i].pc = SaveTurnOutcome(reply),
                              ![i].reply = reply]
    /\ UNCHANGED <<session, posts, searches>>

---------------------------------------------------------------------------
(* Inputs *)

Credentials == {"CARTESIA_API_KEY", "ELEVENLABS_API_KEY", "PERPLEXITY_API_KEY"}

\* creds: the credentials os.getenv finds non-empty; plugin_ok: whether the
\* constructors of the TTS plugins succeed in this process
Environments == [creds : SUBSET Credentials, plugin_ok : BOOLEAN]

\* e in a process that passed the verification of line 382
WithRoom(e) == [e EXCEPT !.creds = @ \cup RoomCredentials]

\* every environment the process can be started in
ProcessEnvironments ==
    [creds : SUBSET (Credentials \cup RoomCredentials), plugin_ok : BOOLEAN]

Jobs == {"j1"}

\* two jobs that the worker runs at the same time
ConcurrentJobs == {"j1", "j2"}

FlagOptions == {None, Some(TRUE), Some(FALSE)}

Tokens == {"cartesia", "elevenlabs", "/", ":", "sonic-3", "abc"}

\* every descriptor string of at most n tokens
Descriptors(n) == UNION {[1..k -> Tokens] : k \in 0..n}

Objects(sids, rts, voices, models, tcs, wss) ==
    {Object(sid, rt, v, m, tc, ws) :
        sid \in sids, rt \in rts, v \in voices, m \in models,
        tc \in tcs, ws \in wss}

Payloads(objects) ==
    {Raw(k, EmptyObject) : k \in {"absent", "malformed"} \cup NonObjectKinds}
        \cup {Raw("object", o) : o \in objects}

InitJobs(jobs, payloads) ==
    /\ metadata \in [jobs -> payloads]
    /\ pc = [j \in jobs |-> "dispatched"]
    /\ config = [j \in jobs |-> None]
    /\ backend = [j \in jobs |-> NoBackend]
    /\ agent = [j \in jobs |-> None]
    /\ greetings = [j \in jobs |-> 0]
    /\ error = [j \in jobs |-> "none"]
    /\ turns = <<>>
    /\ posts = <<>>
    /\ searches = <<>>

\* a job dispatched to a worker that is running
InitSession(payloads, environments) ==
    /\ env \in {WithRoom(e) : e \in environments}
    /\ process = Worker
    /\ InitJobs(Jobs, payloads)

EntrypointStep == \E j \in DOMAIN pc : Entrypoint(j)

StartStep == \E j \in DOMAIN pc : StartDone(j)

GreetStep == \E j \in DOMAIN pc : GreetDone(j)

NextEntry == EntrypointStep \/ StartStep \/ GreetStep

UserSpeechStep == \E j \in DOMAIN pc, text \in Texts : on_user_speech(j, text)

AgentSpeechStep == \E j \in DOMAIN pc, text \in Texts : on_agent_speech(j, text)

SaveTurnStartStep == \E i \in DOMAIN turns : SaveTurnStart(i)

SaveTurnDoneStep ==
    \E i \in DOMAIN turns, reply \in TurnReplies : SaveTurnDone(i, reply)

SearchCallStep == \E j \in DOMAIN pc, query \in Queries : SearchCall(j, query)

SearchReturnStep ==
    \E i \in DOMAIN searches, reply \in SearchReplies : SearchReturn(i, reply)

Next ==
    \/ EntrypointStep
    \/ StartStep
    \/ GreetStep
    \/ UserSpeechStep
    \/ AgentSpeechStep
    \/ SaveTurnStartStep
    \/ SaveTurnDoneStep
    \/ SearchCallStep
    \/ SearchReturnStep

\* one session with its conversation: with and without a session id, in
\* either mode, with the search capability on and off
Init ==
    InitSession(
        {Raw("object", o) :
            o \in Objects({None, Some("s1"), Some("")}, {None, Some(TRUE)},
                          {None}, {None}, {None, Some(FALSE)},
                          {None, Some(FALSE)})},
        {e \in Environments :
            e.plugin_ok /\ "CARTESIA_API_KEY" \in e.creds
                        /\ "ELEVENLABS_API_KEY" \notin e.creds})

Spec == Init /\ [][Next]_vars

\* session start over every shape of dispatch payload
InitEntry ==
    InitSession(
        Payloads(Objects({None, Some("s1"), Some("")}, FlagOptions,
                         {None, Some(<<"cartesia", "/", "sonic-3", ":", "abc">>),
                          Some(<<"alloy">>)},
                         {None, Some("openai/gpt-5-mini"), Some("")},
                         FlagOptions, FlagOptions)),
        Environments)

SpecEntry == InitEntry /\ [][NextEntry]_vars

\* hybrid session start over every descriptor string of at most MaxLen tokens
InitResolver ==
    InitSession(
        {Raw("object", o) :
            o \in Objects({None}, {None}, {Some(d) : d \in Descriptors(MaxLen)},
                          {None}, {None}, {None})},
        {e \in Environments : "PERPLEXITY_API_KEY" \in e.creds})

NextResolver == EntrypointStep \/ StartStep

SpecResolver == InitResolver /\ [][NextResolver]_vars

MainStep == Main

WorkerStopsStep == WorkerStops

\* the process from its start, in every environment, with one job waiting to
\* be dispatched to it
InitMain ==
    /\ env \in ProcessEnvironments
    /\ process = Booting
    /\ InitJobs(Jobs,
                {Raw("absent", EmptyObject),
                 Raw("object", Object(Some("s1"), Some(TRUE), None, None,
                                      None, None))})

NextMain == MainStep \/ WorkerStopsStep \/ EntrypointStep \/ StartStep

SpecMain == InitMain /\ [][NextMain]_vars

\* two sessions side by side, the first in realtime mode, the second in
\* either mode, under the same session id or under two
InitSessions ==
    /\ env = WithRoom([creds |-> {"CARTESIA_API_KEY", "PERPLEXITY_API_KEY"},
                       plugin_ok |-> TRUE])
    /\ process = Worker
    /\ InitJobs(ConcurrentJobs,
                {Raw("object", o) :
                    o \in Objects({Some("s1"), Some("s2")}, {None, Some(TRUE)},
                                  {None}, {None}, {None}, {None})})
    /\ metadata["j1"].fields.session_id = Some("s1")
    /\ metadata["j1"].fields.realtime = Some(TRUE)

NextSessions ==
    \/ EntrypointStep
    \/ StartStep
    \/ GreetStep
    \/ UserSpeechStep
    \/ AgentSpeechStep
    \/ SaveTurnStartStep

SpecSessions == InitSessions /\ [][NextSessions]_vars

---------------------------------------------------------------------------
(* Properties of session start: C1, C4 under SpecEntry; C2, C3 under      *)
(* SpecResolver                                                           *)

\* the documented defaults of SessionConfig
DefaultConfig(warned) ==
    [session_id |-> None, realtime_mode |-> FALSE, voice |-> DefaultVoice,
     model |-> DefaultModel, tool_calling_enabled |-> TRUE,
     web_search_enabled |-> TRUE, warned |-> warned]

\* C1: for dispatch metadata that is absent, is not parseable as JSON or
\* parses to something that is not a JSON object, entrypoint resolves the
\* configuration to the documented defaults and goes on to build the
\* backends: parsing never aborts session start.
C1_MalformedMetadataYieldsDefaults ==
    \A j \in DOMAIN pc :
        (pc[j] # "dispatched" /\ metadata[j].kind # "object")
            => /\ error[j] # "AttributeError"
               /\ config[j] \in {Some(DefaultConfig(w)) : w \in BOOLEAN}

RecognizedPrefix(d) ==
    Len(d) >= 2 /\ d[1] \in {"cartesia", "elevenlabs"} /\ d[2] = "/"

HasColon(d) == \E i \in 1..Len(d) : d[i] = ":"

CredentialFor(d) ==
    IF d[1] = "cartesia" THEN "CARTESIA_API_KEY" ELSE "ELEVENLABS_API_KEY"

\* a recognized prefix, a ':' and the provider's credential
Resolvable(d) ==
    RecognizedPrefix(d) /\ HasColon(d) /\ CredentialFor(d) \in env.creds

\* C2: create_tts_from_voice_descriptor never raises; for a descriptor with
\* no recognized provider prefix, or without ':', or whose provider's
\* credential is absent, or whose plugin constructor fails, it returns the
\* descriptor string unchanged, which hybrid mode passes on as the synthesis
\* backend; the resolver never keeps the session from starting.
C2_ResolverFallsBack ==
    \A j \in DOMAIN pc :
        /\ error[j] \in {"none", "backend", "start"}
        /\ backend[j].mode = "hybrid" =>
              LET d == The(config[j]).voice
                  r == The(backend[j].tts)
              IN  /\ backend[j].tts # None
                  /\ r.kind # "raised"
                  /\ (~Resolvable(d) \/ ~env.plugin_ok)
                        => r.kind = "str" /\ r.value = d

\* the session was started on the raw descriptor although it names Cartesia
C2_Witness ==
    \E j \in DOMAIN pc :
        /\ pc[j] = "greeting"
        /\ "CARTESIA_API_KEY" \notin env.creds
        /\ The(config[j]).voice = <<"cartesia", "/", "sonic-3", ":", "abc">>
        /\ The(backend[j].tts).kind = "str"
        /\ The(backend[j].tts).value = <<"cartesia", "/", "sonic-3", ":", "abc">>

\* r is the provider's backend for d: the voice is all that follows the
\* first ':', the model lies between the last '/' before that ':' and it
Direct(d, r) ==
    /\ r.kind = d[1]
    /\ \E k \in 1..Len(d) :
          /\ d[k] = ":"
          /\ \A i \in 1..(k - 1) : d[i] # ":"
          /\ r.voice = SubSeq(d, k + 1, Len(d))
          /\ \E m \in 1..(k - 1) :
                /\ d[m] = "/"
                /\ \A i \in (m + 1)..(k - 1) : d[i] # "/"
                /\ r.model = SubSeq(d, m + 1, k - 1)

C4_ModeSelection ==
    \A j \in DOMAIN pc :
        backend[j].mode # "none" =>
            LET c == The(config[j])
                b == backend[j]
            IN  IF c.realtime_mode
                THEN /\ b.mode = "realtime"
                     /\ b.llm_kind = "openai.realtime"
                     /\ b.llm_voice = c.voice
                     /\ b.tts = None
                     /\ b.resolver_calls = 0
                ELSE /\ b.mode = "hybrid"
                     /\ b.llm_kind = "inference"
                     /\ c.model # "" => b.llm_model = c.model
                     /\ b.resolver_calls = 1
                     /\ b.tts = Some(create_tts_from_voice_descriptor(c.voice, env))

\* a realtime session built on a voice that names a Cartesia voice
C4_Witness ==
    \E j \in DOMAIN pc :
        /\ pc[j] = "starting"
        /\ The(config[j]).realtime_mode
        /\ "CARTESIA_API_KEY" \in env.creds
        /\ backend[j].llm_voice = <<"cartesia", "/", "sonic-3", ":", "abc">>
        /\ backend[j].tts = None

---------------------------------------------------------------------------
(* Properties of the running session: C5 - C10 under Spec                 *)

SessionOf(job) == The(config[job])

\* C5: when webSearchEnabled is false, every invocation of web_search
\* returns the fixed disabled message and sends no request, whether or not
\* the search credential is present.
C5_DisabledSearch ==
    \A i \in DOMAIN searches :
        ~SessionOf(searches[i].job).web_search_enabled
            => /\ searches[i].pc = "returned"
               /\ searches[i].result = DisabledMessage
               /\ searches[i].requests = 0
               /\ searches[i].reply = NoReply

\* a disabled search although the credential is there
C5_Witness ==
    \E i \in DOMAIN searches :
        /\ ~SessionOf(searches[i].job).web_search_enabled
        /\ "PERPLEXITY_API_KEY" \in env.creds
        /\ searches[i].result = DisabledMessage

FixedMessages ==
    {DisabledMessage, NotConfiguredMessage, TroubleMessage, UnavailableMessage}

\* C6: every invocation of web_search ends by returning a text and never
\* raises, whatever the gates and whatever the request ends in; an awaited
\* request can always end; a request that times out returns the fixed
\* degraded-service message.
C6_SearchReturnsText ==
    \A i \in DOMAIN searches :
        LET call == searches[i]
        IN  /\ call.pc \in {"awaiting", "returned"}
            /\ call.pc = "awaiting" => ENABLED SearchReturnStep
            /\ call.pc = "returned" =>
                  /\ call.result # ""
                  /\ call.result \in FixedMessages
                        \/ (call.reply.kind = "response"
                              /\ call.reply.status = 200
                              /\ call.result = call.reply.body)
            /\ call.reply.kind = "timeout" =>
                  call.pc = "returned" /\ call.result = UnavailableMessage

\* the request timed out and the tool returned its sentence
C6_Witness ==
    \E i \in DOMAIN searches :
        /\ searches[i].reply.kind = "timeout"
        /\ searches[i].pc = "returned"
        /\ searches[i].result = UnavailableMessage

Blank(text) == \A k \in 1..Len(text) : text[k] = " "

PostsOf(i) == {k \in DOMAIN posts : posts[k].turn = i}

\* C7: an utterance-finalized event whose text is empty or whitespace-only,
\* and any event of a session without session id, causes no POST.
C7_NoPostForBlankOrNoSession ==
    \A i \in DOMAIN turns :
        (Blank(turns[i].text)
            \/ SessionOf(turns[i].job).session_id \in {None, Some("")})
            => /\ PostsOf(i) = {}
               /\ turns[i].pc \in {"none", "spawned", "skipped"}

\* a whitespace-only utterance of a session with an id: task run, nothing sent
C7_Witness ==
    \E i \in DOMAIN turns :
        /\ turns[i].text = <<" ">>
        /\ SessionOf(turns[i].job).session_id = Some("s1")
        /\ turns[i].pc = "skipped"
        /\ posts = <<>>

\* out is text without its leading and trailing whitespace
Trimmed(text, out) ==
    \E lo \in 1..Len(text), hi \in 1..Len(text) :
        /\ out = SubSeq(text, lo, hi)
        /\ text[lo] # " " /\ text[hi] # " "
        /\ \A k \in 1..(lo - 1) : text[k] = " "
        /\ \A k \in (hi + 1)..Len(text) : text[k] = " "

\* C8: in a session with session id s, every finalized utterance with
\* non-blank text t produces, once its task runs, a POST to
\* /v1/sessions/s/turns whose body is exactly {speaker, text}: speaker "user"
\* for a user-side event, "assistant" for an assistant-side one, text t
\* trimmed; and no other POST is sent.
C8_PostPathAndBody ==
    /\ \A k \in DOMAIN posts :
          LET t == turns[posts[k].turn]
          IN  /\ SessionOf(t.job).session_id # None
              /\ posts[k].url = <<BACKEND_URL, "/v1/sessions/",
                                  The(SessionOf(t.job).session_id), "/turns">>
              /\ DOMAIN posts[k].body = {"speaker", "text"}
              /\ posts[k].body.speaker =
                    (IF t.event = "user_speech_committed"
                     THEN "user" ELSE "assistant")
              /\ Trimmed(t.text, posts[k].body.text)
    /\ \A i \in DOMAIN turns :
          (~Blank(turns[i].text)
              /\ SessionOf(turns[i].job).session_id \notin {None, Some("")})
              => /\ turns[i].pc \in {"spawned", "posting", "saved", "failed"}
                 /\ turns[i].pc # "spawned" => PostsOf(i) # {}

\* the user said ' hello ' in session s1
C8_Witness ==
    \E k \in DOMAIN posts :
        /\ turns[posts[k].turn].event = "user_speech_committed"
        /\ turns[posts[k].turn].text = <<" ", "hello", " ">>
        /\ posts[k].url = <<BACKEND_URL, "/v1/sessions/", "s1", "/turns">>
        /\ posts[k].body = [speaker |-> "user", text |-> <<"hello">>]

\* C9: the handler of an utterance-finalized event returns after creating
\* the task, without sending or awaiting the POST; and whatever the tasks in
\* flight, answered or not, a live session takes the next event.
C9_FireAndForget ==
    /\ [][Len(turns') = Len(turns) + 1
            => /\ posts' = posts
               /\ turns'[Len(turns')].pc \in {"none", "spawned"}
               /\ \A i \in DOMAIN turns : turns'[i] = turns[i]]_vars
    /\ [](\A j \in DOMAIN pc :
            (Live(j) /\ Budget)
                => ENABLED UserSpeechStep /\ ENABLED AgentSpeechStep)

\* two requests in flight, neither answered
C9_Witness ==
    /\ Len(turns) = 2
    /\ turns[1].pc = "posting"
    /\ turns[2].pc = "posting"

\* C10: every external call is attempted exactly once: a turn that passed
\* the guards has one POST from the moment its task sends it, also after an
\* error status, a timeout or an exception, and none before; an invocation
\* of web_search that passed both gates has sent one request, any other none.
C10_ExactlyOnce ==
    /\ \A i \in DOMAIN turns :
          Cardinality(PostsOf(i)) =
              IF turns[i].pc \in {"posting", "saved", "failed"} THEN 1 ELSE 0
    /\ \A i \in DOMAIN searches :
          searches[i].requests =
              IF SessionOf(searches[i].job).web_search_enabled
                    /\ "PERPLEXITY_API_KEY" \in env.creds
              THEN 1 ELSE 0

\* a POST that timed out and a search that failed, each sent once
C10_Witness ==
    /\ \E i \in DOMAIN turns :
          /\ turns[i].pc = "failed"
          /\ turns[i].reply.kind = "timeout"
          /\ Cardinality(PostsOf(i)) = 1
    /\ \E i \in DOMAIN searches :
          /\ searches[i].reply.kind = "exception"
          /\ searches[i].requests = 1

---------------------------------------------------------------------------
(* Properties of session start, continued: C11, C12 under SpecEntry       *)

\* C11: only session-fatal errors leave the component: entrypoint raises
\* exactly when building or starting the backend pair fails; unresolvable
\* descriptors, missing credentials, malformed dispatch metadata, tool-call
\* failures and persistence failures never make entrypoint, web_search or
\* save_turn raise.
C11_OnlySessionFatalRaised ==
    /\ \A j \in DOMAIN pc :
          /\ error[j] \in {"none", "backend", "start", "greeting"}
          /\ pc[j] = "raised" <=> error[j] # "none"
    /\ \A i \in DOMAIN searches : searches[i].pc # "raised"
    /\ \A i \in DOMAIN turns :
          turns[i].pc \in {"none", "spawned", "skipped", "posting", "saved",
                           "failed"}

\* C12: in every session, in either mode, the agent is constructed with the
\* tool_calling_enabled and web_search_enabled flags of the configuration,
\* and exactly one greeting is requested, once agent_session.start has
\* returned; none is requested when the start fails.
C12_FlagsAndOneGreeting ==
    \A j \in DOMAIN pc :
        /\ pc[j] \in {"starting", "greeting", "running"} => agent[j] # None
        /\ agent[j] # None =>
              LET c == The(config[j])
              IN  The(agent[j]) =
                     [instructions |->
                         IF c.tool_calling_enabled /\ c.web_search_enabled
                         THEN "use the web_search tool"
                         ELSE "rely on built-in knowledge",
                      web_search_enabled |-> c.web_search_enabled]
        /\ greetings[j] =
              IF pc[j] \in {"greeting", "running"} \/ error[j] = "greeting"
              THEN 1 ELSE 0

\* a realtime session with the search switched off, greeted once
C12_Witness ==
    \E j \in DOMAIN pc :
        /\ pc[j] = "running"
        /\ backend[j].mode = "realtime"
        /\ ~The(agent[j]).web_search_enabled
        /\ greetings[j] = 1

---------------------------------------------------------------------------
(* Properties of web_search, continued: C14, C15 under Spec *)

\* C14: the gates of web_search are evaluated in order: enabled with the
\* search credential absent, it returns the fixed "not configured" message
\* and performs no network call; disabled with the credential absent too, it
\* returns the disabled message of the first gate.
C14_GatesInOrder ==
    \A i \in DOMAIN searches :
        LET call == searches[i]
            enabled == SessionOf(call.job).web_search_enabled
        IN  "PERPLEXITY_API_KEY" \notin env.creds =>
               /\ call.pc = "returned"
               /\ call.requests = 0
               /\ call.reply = NoReply
               /\ call.result = IF enabled THEN NotConfiguredMessage
                                ELSE DisabledMessage

\* an enabled search without credential
C14_Witness ==
    \E i \in DOMAIN searches :
        /\ SessionOf(searches[i].job).web_search_enabled
        /\ "PERPLEXITY_API_KEY" \notin env.creds
        /\ searches[i].result = NotConfiguredMessage
        /\ searches[i].requests = 0

FailedReply(reply) ==
    \/ reply.kind \in {"timeout", "exception"}
    \/ reply.kind = "response" /\ reply.status # 200

\* C15 as stated: a non-success response, a timeout and a transport exception
\* all make web_search return the same sentence, that of HTTP 500.
C15_AsStated ==
    \A i \in DOMAIN searches :
        FailedReply(searches[i].reply) =>
            /\ searches[i].pc = "returned"
            /\ searches[i].result = TroubleMessage

\* C15: with search enabled and the credential present, each failure of the
\* request makes web_search return a fixed degraded-service message: the
\* "having trouble searching" sentence for a response whose status is not
\* 200, the "temporarily unavailable" sentence for a timeout and for a
\* transport exception.
C15_DegradedMessages ==
    \A i \in DOMAIN searches :
        LET call == searches[i]
        IN  FailedReply(call.reply) =>
               /\ SessionOf(call.job).web_search_enabled
               /\ "PERPLEXITY_API_KEY" \in env.creds
               /\ call.pc = "returned"
               /\ call.result = IF call.reply.kind = "response"
                                THEN TroubleMessage ELSE UnavailableMessage

\* two searches of one session, one answered 500, one ending in an exception
C15_Witness ==
    \E i, k \in DOMAIN searches :
        /\ searches[i].reply = Reply("response", 500, "server error")
        /\ searches[i].result = TroubleMessage
        /\ searches[k].reply.kind = "exception"
        /\ searches[k].result = UnavailableMessage

---------------------------------------------------------------------------
(* Properties of the resolver, continued: C16 under SpecResolver *)

BaselineFor(d) ==
    IF d[1] = "cartesia" THEN CartesiaBaseline ELSE ElevenLabsBaseline

\* C16: for a descriptor with a recognized provider prefix, a ':' and a
\* present credential but no model text between the provider's '/' and the
\* ':' (as 'cartesia/:abc'), the resolver uses the provider's baseline model
\* ('sonic-3' for cartesia, 'eleven_turbo_v2_5' for elevenlabs), not an
\* empty model.
C16_BaselineForEmptyModel ==
    \A j \in DOMAIN pc :
        LET d == The(config[j]).voice
        IN  (backend[j].mode = "hybrid" /\ Resolvable(d) /\ env.plugin_ok
                                        /\ d[3] = ":")
               => /\ The(backend[j].tts).kind = d[1]
                  /\ The(backend[j].tts).model = BaselineFor(d)

---------------------------------------------------------------------------
(* Properties of the persistence pipeline, continued: C17, C18 under Spec *)

Created == Reply("response", 201, "")

\* C17: save_turn treats HTTP 201 and only 201 as success; any other status
\* (200 too), a timeout and a transport exception are error outcomes that
\* are only logged: the task ends without raising, the step that ends it
\* changes nothing of the session, its configuration, the requests sent, the
\* searches or the other turns, and the session goes on taking events.
C17_Only201IsSuccess ==
    /\ [](\A i \in DOMAIN turns :
            /\ turns[i].pc \in {"none", "spawned", "skipped", "posting",
                                "saved", "failed"}
            /\ turns[i].reply # NoReply =>
                  turns[i].pc = IF turns[i].reply = Created
                                THEN "saved" ELSE "failed")
    /\ [][\A i \in DOMAIN turns :
            (turns[i].pc = "posting" /\ turns'[i].pc # "posting")
                => /\ turns'[i].pc \in {"saved", "failed"}
                   /\ session' = session
                   /\ posts' = posts
                   /\ searches' = searches
                   /\ DOMAIN turns' = DOMAIN turns
                   /\ \A k \in DOMAIN turns : k # i => turns'[k] = turns[k]
                   /\ turns'[i] = [turns[i] EXCEPT !.pc = turns'[i].pc,
                                                   !.reply = turns'[i].reply]
          ]_vars
    /\ []((\E i \in DOMAIN turns : turns[i].pc = "failed")
            => \A j \in DOMAIN pc :
                  (Live(j) /\ Budget)
                     => ENABLED UserSpeechStep /\ ENABLED AgentSpeechStep)

\* a turn answered 200 that counts as failed, in a session still live
C17_Witness ==
    \E i \in DOMAIN turns :
        /\ turns[i].reply = Reply("response", 200, "")
        /\ turns[i].pc = "failed"
        /\ Live(turns[i].job)
        /\ Budget

\* C18: delivery order of turns is not guaranteed: of two utterances
\* finalized in the order A then B in one session, the POST of B may reach
\* the store before that of A (posts is the order in which the requests
\* reach it), and a request carries the speaker and the text only, under a
\* path made of the session id: no sequence number, no timestamp.
C18_OrderNotKept ==
    /\ \A a, b \in DOMAIN turns :
          (/\ a < b
           /\ turns[a].job = turns[b].job
           /\ turns[a].pc = "spawned"
           /\ turns[b].pc = "spawned"
           /\ ~SaveTurnSkips(turns[b].session_id, turns[b].text))
              => ENABLED (SaveTurnStart(b) /\ Len(posts') = Len(posts) + 1)
    /\ \A p \in DOMAIN posts :
          /\ DOMAIN posts[p].body = {"speaker", "text"}
          /\ posts[p].url = Url(The(turns[posts[p].turn].session_id))

\* B, finalized after A in the same session, was posted first
C18_Witness ==
    /\ Len(posts) = 2
    /\ posts[1].turn = 2
    /\ posts[2].turn = 1
    /\ turns[1].job = turns[2].job

---------------------------------------------------------------------------
(* Properties of process start: C13 under SpecMain *)

\* C13: at process start, if a room-connection credential (LIVEKIT_URL,
\* LIVEKIT_API_KEY, LIVEKIT_API_SECRET) is missing or empty, the process
\* exits with a non-zero status and the worker is never started (so no job
\* is ever taken); a missing search or synthesis credential never keeps the
\* worker from starting.
C13_RoomCredentialsRequired ==
    /\ process = Booting => ENABLED MainStep
    /\ process # Booting =>
          /\ process.run_app <=> RoomCredentials \subseteq env.creds
          /\ ~process.run_app =>
                /\ process.state = "exited"
                /\ process.code # 0
                /\ \A j \in DOMAIN pc : pc[j] = "dispatched"

\* the worker started, and took a job, with no search or synthesis credential
C13_Witness ==
    /\ process.state = "worker"
    /\ env.creds = RoomCredentials
    /\ \E j \in DOMAIN pc : pc[j] = "starting"

---------------------------------------------------------------------------
(* Properties of concurrent sessions: C19, C20 under SpecSessions *)

TurnsOf(j) == SelectSeq(turns, LAMBDA t : t.job = j)

\* the utterance-finalized events of job j, in the order they fired
EventsOf(j) ==
    [i \in DOMAIN TurnsOf(j) |-> <<TurnsOf(j)[i].event, TurnsOf(j)[i].text>>]

\* the persistence tasks the handlers of job j created, in that order
TasksOf(j) ==
    LET created == SelectSeq(turns, LAMBDA t : t.job = j /\ t.pc # "none")
    IN  [i \in DOMAIN created |->
            [speaker |-> created[i].speaker, text |-> created[i].text,
             session_id |-> created[i].session_id]]

\* C19: transcript capture is the same in both modes: for the same session
\* id and the same sequence of user-side and assistant-side events, a
\* realtime session and a hybrid session create the same sequence of
\* persistence tasks (speaker label, text, session id); in both modes both
\* handlers are registered before the session is started, and no event is
\* handled before.
C19_SameCaptureInBothModes ==
    /\ \A j \in DOMAIN pc :
          pc[j] \in {"starting", "greeting", "running"}
             => backend[j].handlers = Handlers
    /\ \A i \in DOMAIN turns : pc[turns[i].job] \notin {"dispatched", "starting"}
    /\ \A a, b \in DOMAIN pc :
          (/\ backend[a].mode = "realtime"
           /\ backend[b].mode = "hybrid"
           /\ The(config[a]).session_id = The(config[b]).session_id
           /\ EventsOf(a) = EventsOf(b))
              => TasksOf(a) = TasksOf(b)

\* the same user utterance in a realtime and in a hybrid session of one id
C19_Witness ==
    /\ backend["j1"].mode = "realtime"
    /\ backend["j2"].mode = "hybrid"
    /\ EventsOf("j1") = <<<<"user_speech_committed", <<" ", "hello", " ">>>>>>
    /\ EventsOf("j2") = EventsOf("j1")
    /\ TasksOf("j1") =
          <<[speaker |-> "user", text |-> <<" ", "hello", " ">>,
             session_id |-> Some("s1")]>>
    /\ TasksOf("j2") = TasksOf("j1")

\* the session id json.loads found in the dispatch metadata of job j
ParsedSessionId(j) == The(ParseMetadata(metadata[j]).session_id)

\* C20: session isolation: with several sessions running at once, every
\* POST caused by an utterance event of a session goes to the path of that
\* session's own id, as parsed from its dispatch metadata; the session id
\* the handlers see never changes once parsed, and no turn is posted under
\* another session's id.
C20_SessionIsolation ==
    /\ [](\A i \in DOMAIN turns :
            turns[i].session_id = Some(ParsedSessionId(turns[i].job)))
    /\ [](\A p \in DOMAIN posts :
            LET j == turns[posts[p].turn].job
            IN  /\ posts[p].url = Url(ParsedSessionId(j))
                /\ \A k \in DOMAIN pc :
                      ParsedSessionId(k) # ParsedSessionId(j)
                         => posts[p].url # Url(ParsedSessionId(k)))
    /\ [][\A j \in DOMAIN pc :
            config[j] # None => config'[j] = config[j]]_vars

\* one POST of each of two sessions, each under its own id
C20_Witness ==
    \E p, q \in DOMAIN posts :
        /\ turns[posts[p].turn].job = "j1"
        /\ turns[posts[q].turn].job = "j2"
        /\ posts[p].url = Url("s1")
        /\ posts[q].url = Url("s2")

---------------------------------------------------------------------------
(* Properties of the capability flags: C21 under Spec *)

\* C21: the gate of web_search depends on webSearchEnabled alone:
\* toolCallingEnabled only changes the instruction text of the agent, so
\* with toolCallingEnabled false, webSearchEnabled true and the search
\* credential present an invocation of web_search is not short-circuited
\* and sends the external search request.
C21_GateIgnoresToolCalling ==
    /\ \A j \in DOMAIN pc :
          agent[j] # None =>
             LET c == The(config[j])
             IN  /\ The(agent[j]).web_search_enabled = c.web_search_enabled
                 /\ ~c.tool_calling_enabled =>
                       The(agent[j]).instructions = "rely on built-in knowledge"
    /\ \A i \in DOMAIN searches :
          LET call == searches[i]
              c == SessionOf(call.job)
          IN  /\ call.gate = SearchGate([web_search_enabled |->
                                            c.web_search_enabled], env)
              /\ (/\ ~c.tool_calling_enabled
                  /\ c.web_search_enabled
                  /\ "PERPLEXITY_API_KEY" \in env.creds)
                    => /\ call.gate = "request"
                       /\ call.requests = 1
                       /\ call.result \notin {DisabledMessage,
                                              NotConfiguredMessage}

\* tool calling off, search on, credential present: the request was sent
\* and answered
C21_Witness ==
    \E i \in DOMAIN searches :
        /\ ~SessionOf(searches[i].job).tool_calling_enabled
        /\ SessionOf(searches[i].job).web_search_enabled
        /\ "PERPLEXITY_API_KEY" \in env.creds
        /\ searches[i].requests = 1
        /\ searches[i].reply = Reply("response", 200, "It is sunny.")
        /\ searches[i].result = "It is sunny."

====
